---- MODULE Spec2Model ----
(***************************************************************************)
(* Model of wang-edward/synth, src/extra:                                  *)
(*   midi_file.py  converts a MIDI file (read through mido) into a sorted  *)
(*                 list of (start beat, end beat, pitch) notes and a tempo *)
(*   midi.py       note_to_midi decodes a pitch name such as "ef3"         *)
(*                                                                         *)
(* The MIDI file is the input.  It is consumed one message at a time, so   *)
(* the model draws each next message (and each track boundary, and the end *)
(* of the file) nondeterministically instead of fixing a file in Init.     *)
(* Every file with at most MaxTracks tracks and MaxEvents messages is one  *)
(* behaviour of Spec.  SpecSort applies lines 27-30 to drawn lists of      *)
(* records, SpecDecode applies note_to_midi to drawn tokens.               *)
(*                                                                         *)
(* Floats: start, end and tempo are Python floats obtained by one division *)
(* of two integers.  They are modelled as exact fractions in lowest terms, *)
(* <<numerator, denominator>>, compared by cross-multiplication.  Input    *)
(* domain: ticks_per_beat > 0 and set_tempo values > 0 (a MIDI header or   *)
(* tempo of 0 makes the division raise ZeroDivisionError); deltas >= 0, as *)
(* mido decodes them from variable-length quantities.                      *)
(***************************************************************************)
EXTENDS Integers, Sequences, FiniteSets, TLC

\* ------------------------------------------------------------------ bounds
MaxTracks == 2
MaxEvents == 3
MaxNotes == 4
MaxTokenLen == 4

\* ------------------------------------------------------ input value sets
Deltas == {0, 5}
Pitches == {60, 61}
Velocities == {0, 64}
Tempos == {500000, 1000000}
TicksPerBeatSet == {480}

\* characters a pitch-name token is drawn from
Chars == {"c", "d", "e", "f", "g", "a", "b", "B", "#", "x", " ", "2", "3",
          "4"}

\* note_to_midi has not been called
NotCalled == [raised |-> "not called", value |-> 0]

\* no pending note_on (tracks are numbered from 1), no message yet
NoPend == [track |-> 0, tick |-> 0]
NoMsg == [type |-> "none", time |-> 0, note |-> 0, velocity |-> 0,
          tempo |-> 0]

VARIABLES
    pc,             \* "loop": lines 15-25; "done": after line 30
    ticks_per_beat, \* line 11
    tempo,          \* line 10, 20: a fraction
    notes,          \* line 12: sequence of <<start, end, note>>
    active,         \* line 13: dict note -> tick (a function on the keys)
    trackIdx,       \* how many tracks the outer loop has entered
    tick,           \* line 16, 18
    track,          \* the messages of the current track consumed so far
    out,            \* line 28: sorted(notes), the sequence that is printed
    nEvents,        \* messages consumed in all tracks (bounds the model)
    pend,           \* history: per pitch, the last note event if it was a
                    \* positive-velocity note_on: [track, tick], else NoPend
    tempoEvents,    \* history: [tick, us] of every set_tempo, in order
    seen,           \* history: how many positive-velocity note_on and how
                    \* many note_off events were consumed, in all tracks
    alt,            \* the same program run on the file with some note_off
                    \* messages exchanged with zero-velocity note_on
    s,              \* midi.py: the argument of note_to_midi, a sequence of
                    \* characters
    pitch,          \* midi.py: what note_to_midi(s) returned or raised
    patNotes,       \* midi.py line 14: the list notes of pitch names
    patIdx,         \* midi.py line 86: how many names the loop has printed
    stdout          \* midi.py lines 84-89: the lines printed so far

fileVars == <<ticks_per_beat, tempo, notes, active, trackIdx, tick, track,
              out, nEvents, pend, tempoEvents, seen, alt>>

patVars == <<patNotes, patIdx, stdout>>

vars == <<pc, fileVars, s, pitch, patVars>>

\* --------------------------------------------------------------- numbers
RECURSIVE GCD(_, _)
GCD(a, b) == IF b = 0 THEN a ELSE GCD(b, a % b)

\* a / b for integers a >= 0, b > 0, as a fraction in lowest terms
Frac(a, b) == LET g == GCD(a, b) IN <<a \div g, b \div g>>

FracLess(x, y) == x[1] * y[2] < y[1] * x[2]

\* 60_000_000 / msg.tempo
TempoToBPM(us) == Frac(60000000, us)

\* not the code: ticks turned into seconds at 120 beats per minute
TicksAsSeconds(t, tpb) == Frac(t, 2 * tpb)

\* tick / ticks_per_beat
TicksToBeats(t, tpb) == Frac(t, tpb)

DefaultTempo == <<120, 1>>

\* ---------------------------------------------------------------- messages
Msg(type, time, note, velocity, us) ==
    [type |-> type, time |-> time, note |-> note, velocity |-> velocity,
     tempo |-> us]

Msgs ==
    {Msg("set_tempo", d, 0, 0, us) : d \in Deltas, us \in Tempos}
    \cup {Msg("note_on", d[1], d[2], d[3], 0) :
            d \in Deltas \X Pitches \X Velocities}
    \cup {Msg("note_off", d[1], d[2], 64, 0) :
            d \in Deltas \X Pitches}
    \cup {Msg("control_change", d, 0, 0, 0) : d \in Deltas}

\* ------------------------------------------------------------------- dict
EmptyDict == [k \in {} |-> 0]

DictSet(d, k, v) == [x \in DOMAIN d \cup {k} |-> IF x = k THEN v ELSE d[x]]

DictPop(d, k) == [x \in DOMAIN d \ {k} |-> d[x]]

\* ------------------------------------------------------- the loop's body
\* msg.type == 'note_on' and msg.velocity > 0
IsNoteOnAnyVelocity(m) == m.type = "note_on"
IsNoteOn(m) == m.type = "note_on" /\ m.velocity > 0

\* msg.type in ('note_off', 'note_on'), tried after IsNoteOn
IsNoteOffType(m) == m.type \in {"note_off", "note_on"}

\* tick += msg.time
AddDeltaAbsolute(t, m) == m.time
\* not the code: an event that is dropped is dropped with its delta
AddDeltaOfNotes(t, m) ==
    IF m.type \in {"note_on", "note_off"} THEN t + m.time ELSE t
AddDelta(t, m) == t + m.time

\* tempo = 60_000_000 / msg.tempo
SetTempoLargestTick(old, us) ==
    IF tempoEvents # <<>>
       /\ tempoEvents[Len(tempoEvents)].tick > tick
    THEN old ELSE TempoToBPM(us)
SetTempo(old, us) == TempoToBPM(us)

\* active[msg.note] = tick
NoteOnKeepsFirst(act, note, t) ==
    IF note \in DOMAIN act THEN act ELSE DictSet(act, note, t)
NoteOn(act, note, t) == DictSet(act, note, t)

\* if msg.note in active:
\*     notes.append((active.pop(msg.note) / ticks_per_beat,
\*                   tick / ticks_per_beat, msg.note))
NoteOffDefaultStart(st, note, tpb) ==
    [st EXCEPT !.active = DictPop(st.active, note),
               !.notes = Append(st.notes,
                   <<TicksToBeats(IF note \in DOMAIN st.active
                                  THEN st.active[note] ELSE st.tick, tpb),
                     TicksToBeats(st.tick, tpb), note>>)]
NoteOffNoPop(st, note, tpb) ==
    IF note \in DOMAIN st.active
    THEN [st EXCEPT !.notes = Append(st.notes,
                        <<TicksToBeats(st.active[note], tpb),
                          TicksToBeats(st.tick, tpb), note>>)]
    ELSE st
NoteOff(st, note, tpb) ==
    IF note \in DOMAIN st.active
    THEN [st EXCEPT !.active = DictPop(st.active, note),
                    !.notes = Append(st.notes,
                        <<TicksToBeats(st.active[note], tpb),
                          TicksToBeats(st.tick, tpb), note>>)]
    ELSE st

\* One iteration of the inner loop (lines 18-25) on a state st with the
\* fields tick, tempo, active and notes.
HandleMsg(st, m, tpb) ==
    LET st1 == [st EXCEPT !.tick = AddDelta(st.tick, m)] IN
    IF m.type = "set_tempo" THEN
        [st1 EXCEPT !.tempo = SetTempo(st1.tempo, m.tempo)]
    ELSE IF IsNoteOn(m) THEN
        [st1 EXCEPT !.active = NoteOn(st1.active, m.note, st1.tick)]
    ELSE IF IsNoteOffType(m) THEN
        NoteOff(st1, m.note, tpb)
    ELSE
        st1

\* ------------------------------------------------------------ sorted(notes)
\* Python compares the tuples lexicographically: start, then end, then note.
NoteLessByStart(a, b) == FracLess(a[1], b[1])
NoteLess(a, b) ==
    \/ FracLess(a[1], b[1])
    \/ a[1] = b[1] /\ FracLess(a[2], b[2])
    \/ a[1] = b[1] /\ a[2] = b[2] /\ a[3] < b[3]

RECURSIVE Insert(_, _)
Insert(r, xs) ==
    IF xs = <<>> THEN <<r>>
    ELSE IF NoteLess(r, Head(xs)) THEN <<r>> \o xs
    ELSE <<Head(xs)>> \o Insert(r, Tail(xs))

\* a stable insertion sort: the last element is inserted after its equals
RECURSIVE SortedFrom(_, _)
SortedFrom(xs, acc) ==
    IF xs = <<>> THEN acc
    ELSE SortedFrom(Tail(xs), Insert(Head(xs), acc))

Sorted(xs) == SortedFrom(xs, <<>>)

\* ------------------------------------------------------------------ state
Cur == [tick |-> tick, tempo |-> tempo, active |-> active, notes |-> notes]

PendInit == [p \in Pitches |-> NoPend]

SeenInit == [on |-> 0, off |-> 0]

AltInit ==
    [tick |-> 0, tempo |-> DefaultTempo, active |-> EmptyDict,
     notes |-> <<>>, out |-> <<>>, msg |-> NoMsg]

\* midi.py has not started
PatInit ==
    /\ patNotes = <<>>
    /\ patIdx = 0
    /\ stdout = <<>>

FileInit ==
    /\ ticks_per_beat \in TicksPerBeatSet
    /\ tempo = DefaultTempo
    /\ notes = <<>>
    /\ active = EmptyDict
    /\ trackIdx = 0
    /\ tick = 0
    /\ track = <<>>
    /\ out = <<>>
    /\ nEvents = 0
    /\ pend = PendInit
    /\ tempoEvents = <<>>
    /\ seen = SeenInit
    /\ alt = AltInit

Init ==
    /\ pc = "loop"
    /\ FileInit
    /\ s = <<>>
    /\ pitch = NotCalled
    /\ PatInit

\* --------------------------------------------------- history bookkeeping
RECURSIVE SumTimes(_)
SumTimes(ms) == IF ms = <<>> THEN 0 ELSE Head(ms).time + SumTimes(Tail(ms))

\* what the event is, read off the message alone
PositiveNoteOn(m) == m.type = "note_on" /\ m.velocity > 0
NoteOffLike(m) ==
    m.type = "note_off" \/ (m.type = "note_on" /\ m.velocity = 0)

PendAfter(m, tr) ==
    IF PositiveNoteOn(m)
    THEN [pend EXCEPT ![m.note] = [track |-> trackIdx, tick |-> SumTimes(tr)]]
    ELSE IF NoteOffLike(m) THEN [pend EXCEPT ![m.note] = NoPend]
    ELSE pend

SeenAfter(m) ==
    [on |-> seen.on + (IF PositiveNoteOn(m) THEN 1 ELSE 0),
     off |-> seen.off + (IF NoteOffLike(m) THEN 1 ELSE 0)]

TempoEventsAfter(m, tr) ==
    IF m.type = "set_tempo"
    THEN Append(tempoEvents,
                [track |-> trackIdx, tick |-> SumTimes(tr), us |-> m.tempo])
    ELSE tempoEvents

\* the message put in m's place in the other file: m itself, or, for a
\* note_off or a zero-velocity note_on, the other spelling of the same event
Exchanges(m) ==
    {m} \cup
    (IF m.type = "note_off"
        THEN {Msg("note_on", m.time, m.note, 0, 0)}
     ELSE IF m.type = "note_on" /\ m.velocity = 0
        THEN {Msg("note_off", m.time, m.note, 64, 0)}
     ELSE {})

\* ---------------------------------------------------------------- actions
\* for track in mid.tracks: tick = 0
EnterTrackFreshTable(st) == [st EXCEPT !.tick = 0, !.active = EmptyDict]
EnterTrack(st) == [st EXCEPT !.tick = 0]

StartTrack ==
    /\ pc = "loop"
    /\ trackIdx < MaxTracks
    /\ trackIdx' = trackIdx + 1
    /\ tick' = EnterTrack(Cur).tick
    /\ tempo' = EnterTrack(Cur).tempo
    /\ active' = EnterTrack(Cur).active
    /\ notes' = EnterTrack(Cur).notes
    /\ track' = <<>>
    /\ alt' = EnterTrack(alt)
    /\ UNCHANGED <<pc, ticks_per_beat, out, nEvents, pend, tempoEvents, seen,
                   s, pitch, patVars>>

\* for msg in track: one iteration, on a message drawn from msgs
Process(msgs) ==
    /\ pc = "loop"
    /\ trackIdx >= 1
    /\ nEvents < MaxEvents
    /\ \E m \in msgs : \E m2 \in Exchanges(m) :
        LET st == HandleMsg(Cur, m, ticks_per_beat) IN
        /\ tick' = st.tick
        /\ tempo' = st.tempo
        /\ active' = st.active
        /\ notes' = st.notes
        /\ track' = Append(track, m)
        /\ pend' = PendAfter(m, Append(track, m))
        /\ tempoEvents' = TempoEventsAfter(m, Append(track, m))
        /\ seen' = SeenAfter(m)
        /\ alt' = [HandleMsg(alt, m2, ticks_per_beat) EXCEPT !.msg = m2]
    /\ nEvents' = nEvents + 1
    /\ UNCHANGED <<pc, ticks_per_beat, trackIdx, out, s, pitch, patVars>>

\* lines 27-30: the tempo and sorted(notes) are printed
PrintNotesClearsTable ==
    /\ pc = "loop"
    /\ pc' = "done"
    /\ out' = Sorted(notes)
    /\ active' = EmptyDict
    /\ alt' = [alt EXCEPT !.out = Sorted(alt.notes), !.active = EmptyDict]
    /\ UNCHANGED <<ticks_per_beat, tempo, notes, trackIdx, tick,
                   track, nEvents, pend, tempoEvents, seen, s, pitch,
                   patVars>>
PrintNotes ==
    /\ pc = "loop"
    /\ pc' = "done"
    /\ out' = Sorted(notes)
    /\ alt' = [alt EXCEPT !.out = Sorted(alt.notes)]
    /\ UNCHANGED <<ticks_per_beat, tempo, notes, active, trackIdx, tick,
                   track, nEvents, pend, tempoEvents, seen, s, pitch,
                   patVars>>

ProcessMsg == Process(Msgs)

Next == StartTrack \/ ProcessMsg \/ PrintNotes

Spec == Init /\ [][Next]_vars

\* ------------------------------------------- messages with any msg.time
\* The loop reads msg.time as it is.  mido's file parser produces deltas
\* >= 0; a message stream carrying a negative time reaches line 18 all the
\* same.
SignedDeltas == {-5, 0, 5}

SignedMsgs ==
    {Msg("note_on", d, 60, 64, 0) : d \in SignedDeltas}
    \cup {Msg("note_off", d, 60, 64, 0) : d \in SignedDeltas}
    \cup {Msg("control_change", d, 0, 0, 0) : d \in SignedDeltas}

ProcessSignedMsg == Process(SignedMsgs)

NextSigned == StartTrack \/ ProcessSignedMsg \/ PrintNotes

SpecSigned == Init /\ [][NextSigned]_vars

\* ------------------------------------------------- midi.py: note_to_midi
\* str.lower() on the characters of the model
LowerChar(ch) == IF ch = "B" THEN "b" ELSE ch

Lower(xs) == [i \in 1..Len(xs) |-> LowerChar(xs[i])]

\* str.strip()
RECURSIVE LStrip(_)
LStrip(xs) ==
    IF xs # <<>> /\ Head(xs) = " " THEN LStrip(Tail(xs)) ELSE xs

RECURSIVE RStrip(_)
RStrip(xs) ==
    IF xs # <<>> /\ xs[Len(xs)] = " "
    THEN RStrip(SubSeq(xs, 1, Len(xs) - 1)) ELSE xs

Strip(xs) == RStrip(LStrip(xs))

\* int() of one character
DigitValue ==
    [ch \in {"0", "1", "2", "3", "4", "5", "6", "7", "8", "9"} |->
        CASE ch = "0" -> 0 [] ch = "1" -> 1 [] ch = "2" -> 2 [] ch = "3" -> 3
          [] ch = "4" -> 4 [] ch = "5" -> 5 [] ch = "6" -> 6 [] ch = "7" -> 7
          [] ch = "8" -> 8 [] ch = "9" -> 9]

\* {'c':0,'d':2,'e':4,'f':5,'g':7,'a':9,'b':11}
BaseTableWithX ==
    [ch \in {"c", "d", "e", "f", "g", "a", "b", "x"} |->
        CASE ch = "c" -> 0 [] ch = "d" -> 2 [] ch = "e" -> 4 [] ch = "f" -> 5
          [] ch = "g" -> 7 [] ch = "a" -> 9 [] ch = "b" -> 11 [] ch = "x" -> 0]
BaseTable ==
    [ch \in {"c", "d", "e", "f", "g", "a", "b"} |->
        CASE ch = "c" -> 0 [] ch = "d" -> 2 [] ch = "e" -> 4 [] ch = "f" -> 5
          [] ch = "g" -> 7 [] ch = "a" -> 9 [] ch = "b" -> 11]

\* str.count of one character
RECURSIVE StrCount(_, _)
StrCount(xs, ch) ==
    IF xs = <<>> THEN 0
    ELSE (IF Head(xs) = ch THEN 1 ELSE 0) + StrCount(Tail(xs), ch)

\* flat = acc.count('b') + acc.count('f')
FlatOnlyB(acc) == StrCount(acc, "b")
Flat(acc) == StrCount(acc, "b") + StrCount(acc, "f")

\* sharp = acc.count('#')
Sharp(acc) == StrCount(acc, "#")

\* semitone = (base - flat + sharp) % 12
SemitoneNoWrap(base, flat, sharp) == base - flat + sharp
Semitone(base, flat, sharp) == (base - flat + sharp) % 12

Raised(exc) == [raised |-> exc, value |-> 0]
Returned(v) == [raised |-> "", value |-> v]

note_to_midi(tok) ==
    LET t == Strip(Lower(tok)) IN
    IF t = <<>> THEN Raised("IndexError")
    ELSE IF t[Len(t)] \notin DOMAIN DigitValue THEN Raised("ValueError")
    ELSE IF t[1] \notin DOMAIN BaseTable THEN Raised("KeyError")
    ELSE
        LET octave == DigitValue[t[Len(t)]]
            acc == SubSeq(t, 2, Len(t) - 1)
            base == BaseTable[t[1]]
            semitone == Semitone(base, Flat(acc), Sharp(acc))
        IN Returned((octave + 1) * 12 + semitone)

Tokens == UNION {[1..n -> Chars] : n \in 0..MaxTokenLen}

InitDecode ==
    /\ pc = "call"
    /\ FileInit
    /\ s \in Tokens
    /\ pitch = NotCalled
    /\ PatInit

Decode ==
    /\ pc = "call"
    /\ pc' = "return"
    /\ pitch' = note_to_midi(s)
    /\ UNCHANGED <<fileVars, s, patVars>>

NextDecode == Decode

SpecDecode == InitDecode /\ [][NextDecode]_vars

\* --------------------------------- note_to_midi on longer octave suffixes
\* Names written with c, #, a minus sign and the digits 0 and 1, so that the
\* name ends in more than one digit or in a signed number.
OctaveChars == {"c", "#", "-", "1", "0"}

OctaveTokens == UNION {[1..n -> OctaveChars] : n \in 0..MaxTokenLen}

InitOctave ==
    /\ pc = "call"
    /\ FileInit
    /\ s \in OctaveTokens
    /\ pitch = NotCalled
    /\ PatInit

SpecOctave == InitOctave /\ [][NextDecode]_vars

\* ------------------------------------------- files with whole-beat deltas
\* Files whose deltas are 0 or one beat of 480 ticks, notes only.
BeatDeltas == {0, 480}

BeatMsgs ==
    {Msg("note_on", d, p, 64, 0) : d \in BeatDeltas, p \in Pitches}
    \cup {Msg("note_off", d, p, 64, 0) : d \in BeatDeltas, p \in Pitches}

ProcessBeatMsg == Process(BeatMsgs)

NextBeat == StartTrack \/ ProcessBeatMsg \/ PrintNotes

SpecBeat == Init /\ [][NextBeat]_vars

\* ------------------------------------------ midi.py, lines 84 to 89
\* The module-level statements of midi.py over a list of pitch names.  The
\* list in the repository holds valid names only; the statements are
\* modelled over any list of names, as the list is the part of the script
\* that is edited to make another pattern.
MaxPat == 3

PatTokens == {<<"c", "4">>, <<"e", "f", "3">>, <<"x", "4">>, <<"c">>}

PatLists == UNION {[1..n -> PatTokens] : n \in 0..MaxPat}

Line(kind, value, name) == [line |-> kind, note |-> value, name |-> name]

InitPat ==
    /\ pc = "header"
    /\ FileInit
    /\ s = <<>>
    /\ pitch = NotCalled
    /\ patNotes \in PatLists
    /\ patIdx = 0
    /\ stdout = <<>>

\* line 84: print("const pat = [_]seq.Step{")
PrintHeader ==
    /\ pc = "header"
    /\ stdout' = Append(stdout, Line("header", 0, <<>>))
    /\ pc' = "for"
    /\ UNCHANGED <<fileVars, s, pitch, patNotes, patIdx>>

\* lines 86-87: one iteration; note_to_midi(x) is evaluated while the line
\* is formatted, so an exception leaves the line unprinted and ends the run
PrintStep ==
    /\ pc = "for"
    /\ patIdx < Len(patNotes)
    /\ LET x == patNotes[patIdx + 1]
           r == note_to_midi(x)
       IN /\ s' = x
          /\ pitch' = r
          /\ IF r.raised = ""
                THEN /\ stdout' = Append(stdout, Line("step", r.value, x))
                     /\ patIdx' = patIdx + 1
                     /\ pc' = pc
                ELSE /\ pc' = "raised"
                     /\ UNCHANGED <<stdout, patIdx>>
    /\ UNCHANGED <<fileVars, patNotes>>

\* line 89: print("};")
PrintFooter ==
    /\ pc = "for"
    /\ patIdx = Len(patNotes)
    /\ stdout' = Append(stdout, Line("footer", 0, <<>>))
    /\ pc' = "exit"
    /\ UNCHANGED <<fileVars, s, pitch, patNotes, patIdx>>

NextPat == PrintHeader \/ PrintStep \/ PrintFooter

SpecPat == InitPat /\ [][NextPat]_vars

\* ------------------------------------------------- sorted(notes) alone
\* sorted() as a function of the list: the loop has ended with some list of
\* records in notes (any start and end ticks: a note_off in a later track
\* may carry a smaller tick than its note_on), and lines 27-30 run.
SortTicks == {5, 10}

NoteLists ==
    UNION {[1..n -> {<<TicksToBeats(a, tpb), TicksToBeats(b, tpb), p>> :
                        a \in SortTicks, b \in SortTicks, p \in Pitches,
                        tpb \in TicksPerBeatSet}] : n \in 0..MaxNotes}

InitSort ==
    /\ pc = "loop"
    /\ ticks_per_beat \in TicksPerBeatSet
    /\ tempo = DefaultTempo
    /\ notes \in NoteLists
    /\ active = EmptyDict
    /\ trackIdx = 0
    /\ tick = 0
    /\ track = <<>>
    /\ out = <<>>
    /\ nEvents = 0
    /\ pend = PendInit
    /\ tempoEvents = <<>>
    /\ seen = SeenInit
    /\ alt = [AltInit EXCEPT !.notes = notes]
    /\ s = <<>>
    /\ pitch = NotCalled
    /\ PatInit

NextSort == PrintNotes

SpecSort == InitSort /\ [][NextSort]_vars

\* ------------------------------------------------------------- properties
\* this step consumed a message; it is the last one of track'
Consumed == nEvents' = nEvents + 1
NewMsg == track'[Len(track')]

\* the beat value of a tick, written out: tick / ticks_per_beat in lowest
\* terms
RECURSIVE Divisor(_, _)
Divisor(a, b) == IF b = 0 THEN a ELSE Divisor(b, a % b)
Beat(t) ==
    <<t \div Divisor(t, ticks_per_beat),
      ticks_per_beat \div Divisor(t, ticks_per_beat)>>

C1Scenario(p) ==
    <<Msg("note_on", 0, p, 64, 0), Msg("note_on", 5, p, 64, 0),
      Msg("note_off", 5, p, 64, 0)>>

\* C1: a positive-velocity note_on for a pitch that already has a pending
\* start replaces that start by the new tick and emits nothing; the pending
\* start is always the tick of the most recent note_on of the pitch, so the
\* earlier one is never emitted; and after NoteOn(p, tick 0), NoteOn(p,
\* tick 5), NoteOff(p, tick 10) as the whole input of one track there is
\* exactly one record, (5, 10, p).
C1_Overwrite ==
    [][/\ (Consumed /\ PositiveNoteOn(NewMsg) /\ NewMsg.note \in DOMAIN active)
            => /\ active' = [active EXCEPT ![NewMsg.note] = SumTimes(track')]
               /\ notes' = notes
       /\ \A p \in DOMAIN active' :
            pend'[p] # NoPend /\ active'[p] = pend'[p].tick
       /\ \A p \in Pitches :
            (track' = C1Scenario(p) /\ nEvents' = 3)
                => notes' = << <<Beat(5), Beat(10), p>> >>]_vars

C1_Witness ==
    /\ track = C1Scenario(60)
    /\ nEvents = 3
    /\ notes = << <<Beat(5), Beat(10), 60>> >>
    /\ active = EmptyDict

\* C2: a note_off, or a note_on with velocity 0, for a pitch that is not in
\* the active table appends no record, leaves the table and the tempo as
\* they are and raises nothing; the tick advances by the message's delta.
C2_UnmatchedNoteOff ==
    [][(Consumed /\ NoteOffLike(NewMsg) /\ NewMsg.note \notin DOMAIN active)
        => /\ notes' = notes
           /\ active' = active
           /\ tempo' = tempo
           /\ tick' = tick + NewMsg.time
           /\ pc' = "loop"]_vars

C2_Witness ==
    /\ pc = "loop"
    /\ track = <<Msg("note_on", 0, 61, 64, 0), Msg("note_on", 5, 60, 0, 0)>>
    /\ nEvents = 2
    /\ notes = <<>>
    /\ DOMAIN active = {61}
    /\ tick = 5

\* C3: a note_off (or zero-velocity note_on) for a pitch p that is in the
\* active table with start s appends exactly the record (s, t, p), t the
\* tick of the message, and removes p from the table; a second note_off for
\* p right after it emits nothing; when the note_off follows the note_on of
\* p directly in the same track the record has start <= end, and a delta of
\* 0 gives a record with start = end, which is emitted.
C3_MatchedNoteOff ==
    [][(Consumed /\ NoteOffLike(NewMsg)) =>
        LET p == NewMsg.note IN
        /\ p \in DOMAIN active =>
            /\ notes' = Append(notes, <<Beat(active[p]), Beat(tick'), p>>)
            /\ active' = [q \in DOMAIN active \ {p} |-> active[q]]
        /\ (track # <<>> /\ NoteOffLike(track[Len(track)])
              /\ track[Len(track)].note = p)
            => notes' = notes
        /\ (track # <<>> /\ PositiveNoteOn(track[Len(track)])
              /\ track[Len(track)].note = p)
            => /\ Len(notes') = Len(notes) + 1
               /\ LET r == notes'[Len(notes')] IN
                  /\ r[3] = p
                  /\ r[1][1] * r[2][2] <= r[2][1] * r[1][2]
                  /\ NewMsg.time = 0 => r[1] = r[2]]_vars

C3_Witness ==
    /\ track = <<Msg("note_on", 5, 60, 64, 0), Msg("note_off", 0, 60, 64, 0),
                 Msg("note_off", 5, 60, 64, 0)>>
    /\ notes = << <<Beat(5), Beat(5), 60>> >>
    /\ active = EmptyDict

\* C4: a note_on with velocity 0 is a note_off.  alt is the run of the same
\* program on the file in which any of the note_off messages are replaced by
\* zero-velocity note_on messages of the same pitch and delta, and any of
\* the zero-velocity note_on messages by note_off messages: both runs have
\* the same records, table, tempo and output after every message; and a
\* zero-velocity note_on neither adds a pitch to the table nor changes the
\* start of one.
C4_ZeroVelocityIsNoteOff ==
    [][/\ alt'.notes = notes'
       /\ alt'.active = active'
       /\ alt'.tempo = tempo'
       /\ alt'.tick = tick'
       /\ alt'.out = out'
       /\ (Consumed /\ NewMsg.type = "note_on" /\ NewMsg.velocity = 0)
            => \A p \in DOMAIN active' :
                 p \in DOMAIN active /\ active'[p] = active[p]]_vars

C4_Witness ==
    /\ pc = "done"
    /\ track = <<Msg("note_on", 0, 60, 64, 0), Msg("note_on", 5, 60, 0, 0)>>
    /\ alt.msg = Msg("note_off", 5, 60, 64, 0)
    /\ out = << <<Beat(0), Beat(5), 60>> >>
    /\ alt.out = out

\* C5: entering a track sets the tick to 0 and leaves the table, the
\* records and the tempo as they are, so the first note_off of p in a later
\* track is matched with a note_on of p left pending by an earlier track:
\* the record's start is the tick of that note_on in its track, its end the
\* tick of the note_off in the current track.
C5_TableSharedAcrossTracks ==
    [][/\ trackIdx' # trackIdx
            => /\ trackIdx' = trackIdx + 1
               /\ tick' = 0
               /\ active' = active
               /\ notes' = notes
               /\ tempo' = tempo
       /\ (Consumed /\ NoteOffLike(NewMsg)
              /\ pend[NewMsg.note] # NoPend
              /\ pend[NewMsg.note].track < trackIdx)
            => notes' = Append(notes, <<Beat(pend[NewMsg.note].tick),
                                        Beat(SumTimes(track')),
                                        NewMsg.note>>)]_vars

C5_Witness ==
    /\ trackIdx = 2
    /\ track = <<Msg("note_off", 0, 60, 64, 0)>>
    /\ nEvents = 2
    /\ notes = << <<Beat(5), Beat(0), 60>> >>

\* C6 as stated: when all tracks have been processed the active table is
\* empty.
C6_TableEmptyAtEnd == pc = "done" => DOMAIN active = {}

\* C6, amended: when all tracks have been processed the active table holds
\* exactly the pitches whose last note event was a positive-velocity
\* note_on, each with the tick of that note_on (so it is empty only when no
\* pitch is left pending); these entries are not emitted: the output has
\* one record per assembled record and no more.
C6_PendingLeftInTable ==
    pc = "done" =>
        /\ DOMAIN active = {p \in Pitches : pend[p] # NoPend}
        /\ \A p \in DOMAIN active : active[p] = pend[p].tick
        /\ Len(out) = Len(notes)

C6_Witness ==
    /\ pc = "done"
    /\ DOMAIN active = {61}
    /\ active[61] = 5
    /\ out = << <<Beat(0), Beat(5), 60>> >>

OtherTempos == {<<60, 1>>, <<120, 1>>, <<7, 3>>}

\* C7: at the end of the run the tempo is 60,000,000 / microseconds_per_beat
\* of the last set_tempo in file order (tracks in order, messages in order),
\* whatever its tick, and 120 when there was none; 500000 gives 120 and
\* 1000000 gives 60.  The tempo affects no record: a set_tempo changes
\* neither the records nor the table, and each message changes them the
\* same way under any other tempo.
C7_LastTempoWins ==
    [][/\ pc' = "done" =>
            IF tempoEvents' = <<>> THEN tempo' = <<120, 1>>
            ELSE LET us == tempoEvents'[Len(tempoEvents')].us IN
                 /\ tempo'[1] * us = 60000000 * tempo'[2]
                 /\ us = 500000 => tempo' = <<120, 1>>
                 /\ us = 1000000 => tempo' = <<60, 1>>
       /\ Consumed =>
            /\ NewMsg.type = "set_tempo" =>
                 notes' = notes /\ active' = active
            /\ \A x \in OtherTempos :
                 LET st == HandleMsg([Cur EXCEPT !.tempo = x], NewMsg,
                                     ticks_per_beat) IN
                 st.notes = notes' /\ st.active = active']_vars

C7_Witness ==
    /\ pc = "done"
    /\ Len(tempoEvents) = 2
    /\ tempoEvents[1].us = 500000
    /\ tempoEvents[2].us = 1000000
    /\ tempoEvents[1].tick > tempoEvents[2].tick
    /\ tempo = <<60, 1>>

\* C8: the tick of a message is the sum of the deltas of the messages of
\* its track up to and including it: the delta is added before the message
\* is classified, so a note_on stores that sum; and the tick never
\* decreases within a track.
C8_TickIsSumOfDeltas ==
    [][Consumed =>
        /\ tick' = SumTimes(track')
        /\ tick' >= tick
        /\ PositiveNoteOn(NewMsg) => active'[NewMsg.note] = SumTimes(track')
        /\ (NoteOffLike(NewMsg) /\ NewMsg.note \in DOMAIN active)
             => notes'[Len(notes')][2] = Beat(SumTimes(track'))]_vars

C8_Witness ==
    /\ trackIdx = 2
    /\ Len(track) = 2
    /\ track[1].time = 5
    /\ track[2].time = 5
    /\ tick = 10
    /\ DOMAIN active = {60}
    /\ active[60] = 10

RECURSIVE Count(_, _)
Count(r, xs) ==
    IF xs = <<>> THEN 0
    ELSE (IF Head(xs) = r THEN 1 ELSE 0) + Count(r, Tail(xs))

Elems(xs) == {xs[i] : i \in 1..Len(xs)}

\* x, y are fractions with positive denominators
Below(x, y) == x[1] * y[2] < y[1] * x[2]

InOrder(a, b) ==
    \/ Below(a[1], b[1])
    \/ a[1] = b[1] /\ Below(a[2], b[2])
    \/ a[1] = b[1] /\ a[2] = b[2] /\ a[3] <= b[3]

\* C9: the printed list holds exactly the assembled records, each as often
\* as it was appended, in ascending order of (start, end, pitch): equal
\* starts are ordered by end, equal starts and ends by pitch.
C9_SortedPermutation ==
    pc = "done" =>
        /\ Len(out) = Len(notes)
        /\ \A r \in Elems(notes) \cup Elems(out) :
             Count(r, out) = Count(r, notes)
        /\ \A i \in 1..(Len(out) - 1) : InOrder(out[i], out[i + 1])

C9_Witness ==
    /\ pc = "done"
    /\ notes = << <<Beat(5), Beat(10), 60>>, <<Beat(5), Beat(5), 61>>,
                  <<Beat(5), Beat(5), 60>>, <<Beat(5), Beat(5), 61>> >>
    /\ out = << <<Beat(5), Beat(5), 60>>, <<Beat(5), Beat(5), 61>>,
                <<Beat(5), Beat(5), 61>>, <<Beat(5), Beat(10), 60>> >>

C10Letters == {"c", "d", "e", "f", "g", "a", "b", "C", "D", "E", "F", "G",
               "A", "B"}
C10Digits == {"0", "1", "2", "3", "4", "5", "6", "7", "8", "9"}

C10Base(ch) ==
    CASE ch \in {"c", "C"} -> 0 [] ch \in {"d", "D"} -> 2
      [] ch \in {"e", "E"} -> 4 [] ch \in {"f", "F"} -> 5
      [] ch \in {"g", "G"} -> 7 [] ch \in {"a", "A"} -> 9
      [] ch \in {"b", "B"} -> 11

C10Digit(ch) ==
    CASE ch = "0" -> 0 [] ch = "1" -> 1 [] ch = "2" -> 2 [] ch = "3" -> 3
      [] ch = "4" -> 4 [] ch = "5" -> 5 [] ch = "6" -> 6 [] ch = "7" -> 7
      [] ch = "8" -> 8 [] ch = "9" -> 9

C10Form ==
    /\ Len(s) >= 2
    /\ s[1] \in C10Letters
    /\ s[Len(s)] \in C10Digits

C10Flats == Cardinality({i \in 2..(Len(s) - 1) : s[i] \in {"b", "f", "B", "F"}})
C10Sharps == Cardinality({i \in 2..(Len(s) - 1) : s[i] = "#"})

\* C10: for a token made of a letter of c d e f g a b in either case, an
\* accidental run and one final digit d, note_to_midi returns
\* (d + 1) * 12 + ((base - flats + sharps) mod 12), the mod taken in 0..11,
\* with base c=0 d=2 e=4 f=5 g=7 a=9 b=11, flats the number of b and f in
\* the run (the run read after case normalisation, as the decoder does),
\* sharps the number of #; both are applied; other characters of the run
\* count for nothing.
C10_DecodeFormula ==
    (pc = "return" /\ C10Form) =>
        LET m == (C10Base(s[1]) - C10Flats + C10Sharps) % 12 IN
        /\ m \in 0..11
        /\ pitch = [raised |-> "", value |-> (C10Digit(s[Len(s)]) + 1) * 12 + m]

C10_Witness ==
    /\ pc = "return"
    /\ s = <<"B", "f", "#", "3">>
    /\ pitch.raised = ""
    /\ pitch.value = 59

C12_InvalidNamesFail ==
    (pc = "return" /\ ~C10Form) => pitch.raised # ""

\* the token without its leading and trailing blanks
C12Kept == {i \in 1..Len(s) : s[i] # " "}
C12First == CHOOSE i \in C12Kept : \A j \in C12Kept : i <= j
C12Last == CHOOSE i \in C12Kept : \A j \in C12Kept : j <= i

\* C12, amended: note_to_midi raises for every token that, once its leading
\* and trailing whitespace is removed, has a first character that is not
\* one of the seven letters (in either case), a last character that is not
\* a digit, or fewer than 2 characters.
C12_InvalidStrippedNamesFail ==
    (pc = "return"
        /\ \/ C12Kept = {}
           \/ C12First = C12Last
           \/ s[C12First] \notin C10Letters
           \/ s[C12Last] \notin C10Digits)
    => pitch.raised \in {"IndexError", "ValueError", "KeyError"}

C12_Witness ==
    /\ pc = "return"
    /\ s = <<" ", "x", "4", " ">>
    /\ pitch.raised = "KeyError"

C15Scenario ==
    <<Msg("note_on", 0, 60, 64, 0), Msg("note_off", 480, 60, 64, 0)>>

\* C15: a file of one track with 480 ticks per beat and the events note_on
\* 60 at delta 0, note_off 60 at delta 480 yields exactly one record, start
\* 0 beats, end 1 beat, pitch 60, and the tempo 120; and the start and end of
\* every record are its start tick and its end tick divided by
\* ticks_per_beat.
C15_ScenarioB ==
    [][/\ (pc' = "done" /\ trackIdx' = 1 /\ ticks_per_beat' = 480
             /\ track' = C15Scenario)
          => /\ out' = << << <<0, 1>>, <<1, 1>>, 60 >> >>
             /\ tempo' = <<120, 1>>
       /\ (Consumed /\ Len(notes') > Len(notes))
          => LET r == notes'[Len(notes')]
                 p == r[3]
             IN /\ Len(notes') = Len(notes) + 1
                /\ pend[p] # NoPend
                /\ r[1][2] > 0 /\ r[2][2] > 0
                /\ r[1][1] * ticks_per_beat = pend[p].tick * r[1][2]
                /\ r[2][1] * ticks_per_beat = SumTimes(track') * r[2][2]]_vars

C15_Witness ==
    /\ pc = "done"
    /\ trackIdx = 1
    /\ ticks_per_beat = 480
    /\ track = C15Scenario
    /\ out = << << <<0, 1>>, <<1, 1>>, 60 >> >>
    /\ tempo = <<120, 1>>

\* the trailing digits of s start at C16Digits; a minus sign may precede them
C16AllDigits(i) == \A j \in i..Len(s) : s[j] \in C10Digits
C16Digits == CHOOSE i \in 1..Len(s) :
                 C16AllDigits(i) /\ \A j \in 1..(i - 1) : ~C16AllDigits(j)
C16Signed == C16Digits > 2 /\ s[C16Digits - 1] = "-"
C16RunEnd == IF C16Signed THEN C16Digits - 2 ELSE C16Digits - 1

RECURSIVE C16Decimal(_, _)
C16Decimal(i, n) ==
    IF i > Len(s) THEN n ELSE C16Decimal(i + 1, n * 10 + C10Digit(s[i]))

C16Octave ==
    IF C16Signed THEN 0 - C16Decimal(C16Digits, 0)
    ELSE C16Decimal(C16Digits, 0)

C16Form ==
    /\ Len(s) >= 2
    /\ s[1] \in C10Letters
    /\ s[Len(s)] \in C10Digits
    /\ C16Digits >= 2
    /\ \A i \in 2..C16RunEnd : s[i] \in {"b", "f", "B", "F", "#"}

C16Flats == Cardinality({i \in 2..C16RunEnd : s[i] \in {"b", "f", "B", "F"}})
C16Sharps == Cardinality({i \in 2..C16RunEnd : s[i] = "#"})

\* C16: for a name that ends in a signed integer octave of one or more
\* digits, such as c10 or c-1, note_to_midi returns (octave + 1) * 12 +
\* ((base - flats + sharps) mod 12) for the whole octave number.
C16_FullOctave ==
    (pc = "return" /\ C16Form) =>
        pitch = [raised |-> "",
                 value |-> (C16Octave + 1) * 12
                           + ((C10Base(s[1]) - C16Flats + C16Sharps) % 12)]

C17Ignored(m) == m.type \notin {"set_tempo", "note_on", "note_off"}

\* C17: an event that is neither set_tempo nor note_on nor note_off leaves
\* the records, the table and the tempo as they are and adds its delta to
\* the tick of its track; a set_tempo adds its delta too; so a note_on that
\* comes later in the track is stored with a tick that includes the deltas
\* of the ignored and set_tempo events before it.
C17_OtherEventsOnlyAdvanceTick ==
    [][Consumed =>
        /\ C17Ignored(NewMsg) =>
            /\ notes' = notes
            /\ active' = active
            /\ tempo' = tempo
            /\ tick' = tick + NewMsg.time
        /\ NewMsg.type = "set_tempo" =>
            /\ notes' = notes
            /\ active' = active
            /\ tick' = tick + NewMsg.time
        /\ (PositiveNoteOn(NewMsg) /\ track # <<>>
              /\ (C17Ignored(track[Len(track)])
                    \/ track[Len(track)].type = "set_tempo"))
            => /\ tick = SumTimes(track)
               /\ active'[NewMsg.note] = tick + NewMsg.time]_vars

C17_Witness ==
    /\ trackIdx = 1
    /\ track = <<Msg("control_change", 5, 0, 0, 0),
                 Msg("note_on", 0, 60, 64, 0)>>
    /\ tick = 5
    /\ notes = <<>>
    /\ tempo = DefaultTempo
    /\ DOMAIN active = {60}
    /\ active[60] = 5

\* s is a letter, a run of accidentals and a digit; the run is not empty
C18Form ==
    /\ C10Form
    /\ Len(s) >= 3
    /\ \A i \in 2..(Len(s) - 1) : s[i] \in {"b", "f", "B", "F", "#"}

\* s without the last accidental of its run
C18Shorter == SubSeq(s, 1, Len(s) - 2) \o <<s[Len(s)]>>

\* C18: each accidental shifts the pitch by one semitone: a name whose run
\* ends in f decodes to one less than the name without that f, a name whose
\* run ends in # to one more than the name without that #, also when the
\* shift crosses the octave boundary (a flat on c, a sharp on b).
C18_AccidentalShiftsByOne ==
    (pc = "return" /\ C18Form) =>
        /\ pitch.raised = ""
        /\ s[Len(s) - 1] = "f"
             => pitch.value = note_to_midi(C18Shorter).value - 1
        /\ s[Len(s) - 1] = "#"
             => pitch.value = note_to_midi(C18Shorter).value + 1

\* C19: with deltas that are never negative, in files of one or of several
\* tracks, every record has start <= end.
C19_StartNotAfterEnd ==
    \A i \in 1..Len(notes) :
        notes[i][1][1] * notes[i][2][2] <= notes[i][2][1] * notes[i][1][2]

\* C20: a record is appended only when a note_off of its pitch p is consumed
\* while the last note event of p before it was a positive-velocity note_on
\* (no other note_on or note_off of p between the two); the record is
\* (tick of that note_on, tick of the note_off, p); that note_on is then no
\* longer pending, so it is used by one record at most; a note_on with no
\* later note_off of its pitch gives no record, nor does a note_off with
\* nothing pending; and the records are never more than the note_off events
\* nor than the positive-velocity note_on events consumed so far.
C20_PairingCorrect ==
    [][/\ notes' # notes =>
            /\ Consumed
            /\ NoteOffLike(NewMsg)
            /\ pend[NewMsg.note] # NoPend
            /\ notes' = Append(notes, <<Beat(pend[NewMsg.note].tick),
                                        Beat(SumTimes(track')),
                                        NewMsg.note>>)
            /\ pend'[NewMsg.note] = NoPend
            /\ NewMsg.note \notin DOMAIN active'
       /\ (Consumed /\ NoteOffLike(NewMsg))
            => Len(notes') = Len(notes)
                             + (IF pend[NewMsg.note] # NoPend THEN 1 ELSE 0)
       /\ (Consumed /\ PositiveNoteOn(NewMsg)) => notes' = notes
       /\ Len(notes') <= seen'.off
       /\ Len(notes') <= seen'.on
       /\ pc' = "done" => Len(out') = Len(notes')]_vars

C20_Witness ==
    /\ pc = "done"
    /\ track = <<Msg("note_on", 5, 60, 64, 0), Msg("note_off", 5, 60, 64, 0),
                 Msg("note_on", 0, 61, 64, 0)>>
    /\ seen = [on |-> 2, off |-> 1]
    /\ pend[61] = [track |-> 1, tick |-> 10]
    /\ pend[60] = NoPend
    /\ out = << <<Beat(5), Beat(10), 60>> >>

====
